---- MODULE Spec2Model ----
(***************************************************************************)
(* Model of the two attendance pages of NFC_Tag_Front.                     *)
(*                                                                         *)
(*   variant = "page" : src/app/page.tsx, the page over the synthetic      *)
(*                      (locally generated) attendance table               *)
(*   variant = "tmp"  : src/app/tmp.tsx, the page over the remote backend  *)
(*                                                                         *)
(*   variant = "proxy": the API route handler at the end of page.tsx, the  *)
(*                      proxy the remote page sends its updates through    *)
(*                                                                         *)
(* A JavaScript Date is modelled by its timestamp, counted in ticks:       *)
(*   ts = (day number since 1970-01-01) * TicksPerDay + (tick of the day)  *)
(* tick 0 of a day is 00:00:00.000 and tick TicksPerDay-1 is 23:59:59.999. *)
(* A "yyyy-MM-dd" string is modelled by the triple <<y, m, d>>.            *)
(* Leave balances are counted in half days (3 days = 6).                   *)
(***************************************************************************)
EXTENDS Integers, Sequences, FiniteSets

VARIABLES
    variant,          \* which page is mounted: "page" or "tmp"
    mounted,          \* FALSE until the mount effect has run
    now,              \* the wall clock (what new Date() returns)
    steps,            \* number of user events so far (bounded by MaxSteps)
    viewMode,         \* useState<ViewMode>
    dateRange,        \* useState<{from, to}>
    isLoading,        \* useState<boolean>
    attendanceData,   \* page: sequence of employees with their attendance
                      \* tmp : function from employee id to its records
    employees,        \* tmp: useState<Employee[]>
    editEmployeeId,   \* edit session
    editDate,
    editStatus,
    editTime,         \* tmp only
    editComment,      \* tmp only
    dialogOpen,       \* the cell whose <Dialog> is open, or NoCell
    usersInFlight,    \* tmp: number of GET /users requests in flight
    loads,            \* tmp: fetchAttendanceData calls awaiting Promise.all
    puts,             \* tmp: PUT /api/attendance requests in flight
    alertOpen,        \* tmp: an alert() box is open (it blocks the page)
    errorCount,       \* tmp: number of console.error() calls
    lastError,        \* tmp: the message of the last console.error() call
    proxyPhase,       \* handler: "idle", "awaiting" (the upstream) or "responded"
    proxyReq,         \* handler: req, the request being handled
    proxyUpstream,    \* handler: the upstream requests issued for proxyReq
    proxyAnswer,      \* handler: what the upstream did with the request
    proxyRes          \* handler: res, the response sent

proxyVars == <<proxyPhase, proxyReq, proxyUpstream, proxyAnswer, proxyRes>>

vars == <<variant, mounted, now, steps, viewMode, dateRange, isLoading,
          attendanceData, employees, editEmployeeId, editDate, editStatus,
          editTime, editComment, dialogOpen, usersInFlight, loads, puts,
          alertOpen, errorCount, lastError,
          proxyVars>>

uiVars == <<viewMode, dateRange, isLoading, attendanceData, employees>>
editVars == <<editEmployeeId, editDate, editStatus, editTime, editComment>>
netVars == <<usersInFlight, loads, puts>>
logVars == <<alertOpen, errorCount, lastError>>

-----------------------------------------------------------------------------
(* Bounds of the model *)

TicksPerDay == 3      \* instants distinguished within one day
MaxTicks == 1         \* how far the clock advances
MaxSteps == 4         \* user events per behaviour
MaxEditCols == 1      \* an edit is opened on one of the first columns
MaxInFlight == 2      \* requests of one kind in flight at once
MaxErrors == 1        \* failures logged by console.error per behaviour

\* null of editEmployeeId is modelled by 0 (no employee has id 0, and 0 is
\* falsy like null); null of editDate by the empty tuple, a page.tsx Date d
\* held by editDate being <<d>> and a tmp.tsx date string being <<y, m, d>>.
nullId == 0
nullDate == <<>>
undefined == "undefined"
NoCell == <<>>

-----------------------------------------------------------------------------
(* The calendar behind Date: proleptic Gregorian, local time, no DST *)

DaysFromCivil(y, m, d) ==
    LET yy == IF m <= 2 THEN y - 1 ELSE y
        era == yy \div 400
        yoe == yy - era * 400
        mp == IF m > 2 THEN m - 3 ELSE m + 9
        doy == (153 * mp + 2) \div 5 + d - 1
        doe == yoe * 365 + yoe \div 4 - yoe \div 100 + doy
    IN era * 146097 + doe - 719468

CivilFromDays(z) ==
    LET zz == z + 719468
        era == zz \div 146097
        doe == zz - era * 146097
        yoe == (doe - doe \div 1460 + doe \div 36524 - doe \div 146096) \div 365
        doy == doe - (365 * yoe + yoe \div 4 - yoe \div 100)
        mp == (5 * doy + 2) \div 153
        d == doy - (153 * mp + 2) \div 5 + 1
        m == IF mp < 10 THEN mp + 3 ELSE mp - 9
        y == yoe + era * 400 + (IF m <= 2 THEN 1 ELSE 0)
    IN <<y, m, d>>

IsLeap(y) == (y % 4 = 0 /\ y % 100 # 0) \/ y % 400 = 0

DaysInMonth(y, m) ==
    IF m = 2 THEN (IF IsLeap(y) THEN 29 ELSE 28)
    ELSE IF m \in {4, 6, 9, 11} THEN 30 ELSE 31

DayOf(ts) == ts \div TicksPerDay
TodOf(ts) == ts % TicksPerDay
AtStart(day) == day * TicksPerDay                      \* setHours(0,0,0,0)
AtEnd(day) == day * TicksPerDay + (TicksPerDay - 1)    \* setHours(23,59,59,999)

\* Date.prototype.getDay: 0 = Sunday .. 6 = Saturday
getDay(ts) == (DayOf(ts) + 4) % 7

-----------------------------------------------------------------------------
(* date-fns, as the pages call it (default options: weekStartsOn = 0) *)

\* mutant: the week is taken to start on Monday (weekStartsOn: 1)
startOfWeekMonday(ts) == AtStart(DayOf(ts) - ((getDay(ts) + 6) % 7))

startOfWeek(ts) == AtStart(DayOf(ts) - getDay(ts))
endOfWeek(ts) == AtEnd(DayOf(ts) + (6 - getDay(ts)))

startOfMonth(ts) ==
    LET c == CivilFromDays(DayOf(ts)) IN AtStart(DaysFromCivil(c[1], c[2], 1))

endOfMonth(ts) ==
    LET c == CivilFromDays(DayOf(ts))
    IN AtEnd(DaysFromCivil(c[1], c[2], DaysInMonth(c[1], c[2])))

\* addMonths(date, -amount): same day of month, clamped to the target
\* month's last day; the time of day is kept.
subMonths(ts, amount) ==
    LET c == CivilFromDays(DayOf(ts))
        idx == c[1] * 12 + (c[2] - 1) - amount
        y == idx \div 12
        m == (idx % 12) + 1
        dim == DaysInMonth(y, m)
        d == IF c[3] > dim THEN dim ELSE c[3]
    IN DaysFromCivil(y, m, d) * TicksPerDay + TodOf(ts)

\* mutant: Saturday is not recognised as a weekend day
isWeekendSundayOnly(ts) == getDay(ts) = 0

isWeekend(ts) == getDay(ts) \in {0, 6}

isBefore(a, b) == a < b

\* One Date, at 00:00, per calendar day from start's day while <= end.
\* The pages never pass start > end.
eachDayOfInterval(start, end) ==
    LET first == DayOf(start)
        last == DayOf(end)
    IN [i \in 1..(last - first + 1) |-> AtStart(first + i - 1)]

\* format(date, "yyyy-MM-dd")
FormatYMD(ts) == CivilFromDays(DayOf(ts))

\* eachDayOfInterval({start, end}).filter((day) => !isWeekend(day))
WorkDays(start, end) ==
    SelectSeq(eachDayOfInterval(start, end), LAMBDA day : ~isWeekend(day))

-----------------------------------------------------------------------------
(* Shared page logic *)

ViewModes == {"day", "week", "month", "all"}

\* mutant: "all" goes back one month instead of twelve
RangeOfOneMonth(mode, today) ==
    CASE mode = "day" -> [from |-> today, to |-> today]
      [] mode = "week" -> [from |-> startOfWeek(today), to |-> endOfWeek(today)]
      [] mode = "month" -> [from |-> startOfMonth(today), to |-> endOfMonth(today)]
      [] mode = "all" -> [from |-> subMonths(today, 1), to |-> today]

\* The range handleViewModeChange computes for `mode` when new Date() = today
RangeOf(mode, today) ==
    CASE mode = "day" -> [from |-> today, to |-> today]
      [] mode = "week" -> [from |-> startOfWeek(today), to |-> endOfWeek(today)]
      [] mode = "month" -> [from |-> startOfMonth(today), to |-> endOfMonth(today)]
      [] mode = "all" -> [from |-> subMonths(today, 12), to |-> today]

-----------------------------------------------------------------------------
(* page.tsx: the synthetic backend *)

PageStatuses == {"Present", "Absent", "Vacation", "Late", "OfficialLeave", "Not Yet"}
PageOptions == {"Present", "Absent", "Vacation", "Late", "OfficialLeave"}

\* the employee literals of fetchAttendanceData; balances in half days
PageEmployees ==
    << [id |-> 1, name |-> "John Doe", remainingVacationDays |-> 6, accumulatedFine |-> 50000],
       [id |-> 2, name |-> "Jane Smith", remainingVacationDays |-> 10, accumulatedFine |-> 30000],
       [id |-> 3, name |-> "Bob Johnson", remainingVacationDays |-> 2, accumulatedFine |-> 75000] >>

BobStatuses == <<"Present", "Absent", "Late", "Vacation", "OfficialLeave">>

\* mutant: the date compared with today is always the first of weekDays
getStatusFirstDay(weekDays, today, employeeId, index) ==
    IF ~isBefore(weekDays[1], today)
    THEN [status |-> "Not Yet", checkInTime |-> undefined]
    ELSE CASE employeeId = 1 ->
                IF index % 10 = 0
                THEN [status |-> "Vacation", checkInTime |-> undefined]
                ELSE [status |-> "Present", checkInTime |-> "09:40"]
           [] employeeId = 2 ->
                IF index % 5 = 0
                THEN [status |-> "Late", checkInTime |-> "10:15"]
                ELSE [status |-> "Absent", checkInTime |-> undefined]
           [] employeeId = 3 ->
                LET status == BobStatuses[(index % 5) + 1]
                IN IF status = "Present" THEN [status |-> status, checkInTime |-> "09:50"]
                   ELSE IF status = "Late" THEN [status |-> status, checkInTime |-> "10:15"]
                   ELSE [status |-> status, checkInTime |-> undefined]
           [] OTHER -> [status |-> "Not Yet", checkInTime |-> undefined]

\* getStatus(employeeId, index); index counts from 0, weekDays[index + 1]
\* is the TLA+ element
getStatus(weekDays, today, employeeId, index) ==
    IF ~isBefore(weekDays[index + 1], today)
    THEN [status |-> "Not Yet", checkInTime |-> undefined]
    ELSE CASE employeeId = 1 ->
                IF index % 10 = 0
                THEN [status |-> "Vacation", checkInTime |-> undefined]
                ELSE [status |-> "Present", checkInTime |-> "09:40"]
           [] employeeId = 2 ->
                IF index % 5 = 0
                THEN [status |-> "Late", checkInTime |-> "10:15"]
                ELSE [status |-> "Absent", checkInTime |-> undefined]
           [] employeeId = 3 ->
                LET status == BobStatuses[(index % 5) + 1]
                IN IF status = "Present" THEN [status |-> status, checkInTime |-> "09:50"]
                   ELSE IF status = "Late" THEN [status |-> status, checkInTime |-> "10:15"]
                   ELSE [status |-> status, checkInTime |-> undefined]
           [] OTHER -> [status |-> "Not Yet", checkInTime |-> undefined]

\* fetchAttendanceData(start, end) called when new Date() = today
fetchAttendanceDataPage(start, end, today) ==
    LET weekDays == WorkDays(start, end)
    IN [e \in 1..Len(PageEmployees) |->
          [id |-> PageEmployees[e].id,
           name |-> PageEmployees[e].name,
           remainingVacationDays |-> PageEmployees[e].remainingVacationDays,
           accumulatedFine |-> PageEmployees[e].accumulatedFine,
           attendance |->
              [i \in 1..Len(weekDays) |->
                 LET s == getStatus(weekDays, today, PageEmployees[e].id, i - 1)
                 IN [date |-> weekDays[i], status |-> s.status,
                     checkInTime |-> s.checkInTime]]]]

\* the dates of the displayed columns: attendanceData[0]?.attendance
PageColumns(data) ==
    IF Len(data) = 0 THEN <<>>
    ELSE [i \in 1..Len(data[1].attendance) |-> data[1].attendance[i].date]

\* mutant: the employee id is not compared
SaveEditPageAnyEmployee(prevData, id, date, status) ==
    [e \in 1..Len(prevData) |->
        [prevData[e] EXCEPT !.attendance =
            [i \in 1..Len(prevData[e].attendance) |->
                IF prevData[e].attendance[i].date = date
                THEN [prevData[e].attendance[i] EXCEPT !.status = status]
                ELSE prevData[e].attendance[i]]]]

\* setAttendanceData callback of saveEdit
SaveEditPage(prevData, id, date, status) ==
    [e \in 1..Len(prevData) |->
        IF prevData[e].id = id
        THEN [prevData[e] EXCEPT !.attendance =
                [i \in 1..Len(prevData[e].attendance) |->
                    IF prevData[e].attendance[i].date = date
                    THEN [prevData[e].attendance[i] EXCEPT !.status = status]
                    ELSE prevData[e].attendance[i]]]
        ELSE prevData[e]]

Max(a, b) == IF a >= b THEN a ELSE b

\* the amounts of the four leave-day buttons, in half days
Changes == {2, 1, -1, -2}

\* setAttendanceData callback of handleVacationDayChange
VacationDayChangePage(prevData, employeeId, change) ==
    [e \in 1..Len(prevData) |->
        IF prevData[e].id = employeeId
        THEN [prevData[e] EXCEPT !.remainingVacationDays =
                Max(0, prevData[e].remainingVacationDays + change)]
        ELSE prevData[e]]

\* mutant: the -1 button carries the threshold of the -0.5 button
ChangeDisabledHalf(balance, change) ==
    CASE change = -1 -> balance < 1
      [] change = -2 -> balance < 1
      [] OTHER -> FALSE

\* the disabled attribute of the button applying `change` to `balance`
\* (the +1 and +0.5 buttons have none)
ChangeDisabled(balance, change) ==
    CASE change = -1 -> balance < 1
      [] change = -2 -> balance < 2
      [] OTHER -> FALSE

-----------------------------------------------------------------------------
(* tmp.tsx: the remote backend *)

TmpStatuses == {"PRESENT", "ABSENT", "VACATION", "LATE", "OFFICIAL_LEAVE", "NOT_YET"}
TmpOptions == {"PRESENT", "ABSENT", "VACATION", "LATE", "OFFICIAL_LEAVE"}

\* what GET /users answers; balances in half days
ServerEmployees ==
    << [id |-> 1, name |-> "Kim", remainingLeaveDays |-> 6, latePenaltyPoints |-> 2],
       [id |-> 2, name |-> "Lee", remainingLeaveDays |-> 1, latePenaltyPoints |-> 0] >>

\* the records the upstream service stores, per employee id
ServerDb(id) ==
    CASE id = 1 ->
           << [attendanceDate |-> <<2024, 2, 26>>, status |-> "LATE",
               time |-> "10:15", comment |-> undefined],
              [attendanceDate |-> <<2024, 2, 27>>, status |-> "OFFICIAL_LEAVE",
               time |-> undefined, comment |-> "medical"],
              [attendanceDate |-> <<2023, 3, 1>>, status |-> "ABSENT",
               time |-> undefined, comment |-> undefined] >>
      [] id = 2 ->
           << [attendanceDate |-> <<2024, 2, 26>>, status |-> "PRESENT",
               time |-> "09:00", comment |-> undefined] >>
      [] OTHER -> <<>>

YMDToDay(ymd) == DaysFromCivil(ymd[1], ymd[2], ymd[3])

\* GET /attendance/records?userId=..&startDate=..&endDate=..
\* (both dates are sent as format(date, "yyyy-MM-dd"))
RecordsFor(id, startDate, endDate) ==
    SelectSeq(ServerDb(id),
              LAMBDA r : /\ YMDToDay(startDate) <= YMDToDay(r.attendanceDate)
                         /\ YMDToDay(r.attendanceDate) <= YMDToDay(endDate))

\* the ids of a list of employees, in order
IdsOf(emps) == [i \in 1..Len(emps) |-> emps[i].id]

SeqRange(s) == {s[i] : i \in 1..Len(s)}

\* the call of fetchAttendanceData made in a render whose employees and
\* dateRange are emps and range: one request per employee.  ok tells
\* whether the upstream is going to answer every one of them with records.
NewLoad(emps, range, ok) ==
    [ids |-> IdsOf(emps),
     startDate |-> FormatYMD(range.from),
     endDate |-> FormatYMD(range.to),
     ok |-> ok]

\* Object.assign({}, ...results) once every request of the load answered
CombinedData(load) ==
    [id \in SeqRange(load.ids) |-> RecordsFor(id, load.startDate, load.endDate)]

\* dateRangeArray
dateRangeArray(range) == WorkDays(range.from, range.to)

\* attendanceData[employee.id]?.find(r => r.attendanceDate === ymd)
\*   || { status: "NOT_YET" }
FindRecord(data, id, ymd) ==
    IF id \in DOMAIN data /\ \E i \in 1..Len(data[id]) : data[id][i].attendanceDate = ymd
    THEN LET i == CHOOSE k \in 1..Len(data[id]) :
                    /\ data[id][k].attendanceDate = ymd
                    /\ \A j \in 1..(k - 1) : data[id][j].attendanceDate # ymd
         IN data[id][i]
    ELSE [status |-> "NOT_YET", time |-> undefined, comment |-> undefined]

\* x || ""
OrEmpty(x) == IF x = undefined \/ x = "" THEN "" ELSE x

\* editEmployeeId && editDate && editStatus
SessionTruthy == editEmployeeId # nullId /\ editDate # nullDate /\ editStatus # ""

\* the requestBody of saveEdit
RequestBody ==
    [userId |-> editEmployeeId, attendanceDate |-> editDate, status |-> editStatus,
     comment |-> editComment, time |-> editTime]

Remove(s, i) == [j \in 1..(Len(s) - 1) |-> IF j < i THEN s[j] ELSE s[j + 1]]

-----------------------------------------------------------------------------
(* page.tsx, handler: the proxy of the attendance update *)

Methods == {"GET", "POST", "PUT", "DELETE", "PATCH"}

\* req.body as the body parser of the API route hands it over: the object
\* that saveEdit of tmp.tsx serialised
ProxyBodies ==
    [userId : {1, 2}, attendanceDate : {<<2024, 3, 5>>},
     status : {"OFFICIAL_LEAVE", "ABSENT"}, comment : {"", "medical"},
     time : {"", "09:00"}]

\* JSON.stringify(req.body): the members in the order of the object's keys
JSONStringify(body) ==
    << <<"userId", body.userId>>, <<"attendanceDate", body.attendanceDate>>,
       <<"status", body.status>>, <<"comment", body.comment>>,
       <<"time", body.time>> >>

\* what the upstream service reads from a JSON text
JSONParse(text) ==
    [m \in {text[i][1] : i \in 1..Len(text)} |->
        text[CHOOSE i \in 1..Len(text) : text[i][1] = m][2]]

\* What the upstream does with the request.  status 0: fetch rejects (no
\* response); contentType "": no content-type header; valid: the body is
\* JSON that response.json() can parse.
UpstreamOutcomes ==
    { [status |-> 200, contentType |-> "application/json", valid |-> TRUE, payload |-> "updated"],
      [status |-> 201, contentType |-> "application/json; charset=utf-8", valid |-> TRUE, payload |-> "created"],
      [status |-> 200, contentType |-> "application/json", valid |-> FALSE, payload |-> ""],
      [status |-> 200, contentType |-> "text/plain", valid |-> FALSE, payload |-> "OK"],
      [status |-> 204, contentType |-> "", valid |-> FALSE, payload |-> ""],
      [status |-> 400, contentType |-> "application/json", valid |-> TRUE, payload |-> "bad request"],
      [status |-> 500, contentType |-> "text/plain", valid |-> FALSE, payload |-> "error"],
      [status |-> 0, contentType |-> "", valid |-> FALSE, payload |-> ""] }

NoRequest == [method |-> "", body |-> <<>>]
NoAnswer == [status |-> 0, contentType |-> "", valid |-> FALSE, payload |-> "none"]
NoResponse == [status |-> 0, allow |-> <<>>, kind |-> "", message |-> "", data |-> "", error |-> ""]

\* response.ok
ResponseOk(o) == 200 <= o.status /\ o.status <= 299

\* contentType && contentType.indexOf("application/json") !== -1
IsJsonType(contentType) ==
    contentType \in {"application/json", "application/json; charset=utf-8"}

\* the response of the catch block; JSON.stringify of an Error is "{}"
ErrorResponse ==
    [status |-> 500, allow |-> <<>>, kind |-> "json",
     message |-> "Failed to update attendance", data |-> "", error |-> "{}"]

\* the else branch of the method test
MethodNotAllowed(method) ==
    [status |-> 405, allow |-> <<"PUT">>, kind |-> "text",
     message |-> "", data |-> <<"Method", method, "Not Allowed">>, error |-> ""]

\* the upstream's status is relayed instead of 500
PutResponseRelayStatus(o) ==
    IF o.status = 0 THEN ErrorResponse
    ELSE IF ~ResponseOk(o) THEN [ErrorResponse EXCEPT !.status = o.status]
    ELSE IF IsJsonType(o.contentType)
         THEN IF o.valid
              THEN [status |-> 200, allow |-> <<>>, kind |-> "json",
                    message |-> "", data |-> o.payload, error |-> ""]
              ELSE ErrorResponse
         ELSE [status |-> 200, allow |-> <<>>, kind |-> "json",
               message |-> o.payload, data |-> "", error |-> ""]

\* the try block of handler after the await of fetch, o being what the
\* upstream did
PutResponse(o) ==
    IF o.status = 0 THEN ErrorResponse                  \* fetch rejected
    ELSE IF ~ResponseOk(o) THEN ErrorResponse           \* throw new Error(...)
    ELSE IF IsJsonType(o.contentType)
         THEN IF o.valid
              THEN [status |-> 200, allow |-> <<>>, kind |-> "json",
                    message |-> "", data |-> o.payload, error |-> ""]
              ELSE ErrorResponse                        \* response.json() rejects
         ELSE [status |-> 200, allow |-> <<>>, kind |-> "json",
               message |-> o.payload, data |-> "", error |-> ""]

ProxyIdle ==
    /\ proxyPhase = "idle"
    /\ proxyReq = NoRequest
    /\ proxyUpstream = <<>>
    /\ proxyAnswer = NoAnswer
    /\ proxyRes = NoResponse

\* handler(req, res) is called: the method test and, for PUT, the fetch of
\* the upstream.  Each request is handled on its own; the model handles
\* one at a time.
handler(method, body) ==
    /\ variant = "proxy" /\ proxyPhase # "awaiting"
    /\ proxyReq' = [method |-> method, body |-> body]
    /\ proxyAnswer' = NoAnswer
    /\ IF method = "PUT"
       THEN /\ proxyUpstream' = << [method |-> "PUT", path |-> "/attendance",
                                    contentType |-> "application/json",
                                    body |-> JSONStringify(body)] >>
            /\ proxyRes' = NoResponse
            /\ proxyPhase' = "awaiting"
       ELSE /\ proxyUpstream' = <<>>
            /\ proxyRes' = MethodNotAllowed(method)
            /\ proxyPhase' = "responded"
    /\ UNCHANGED <<variant, mounted, now, steps, uiVars, editVars, dialogOpen,
                   netVars, logVars>>

\* the upstream request settles and handler runs to its end
handlerResumes(o) ==
    /\ variant = "proxy" /\ proxyPhase = "awaiting"
    /\ proxyAnswer' = o
    /\ proxyRes' = PutResponse(o)
    /\ proxyPhase' = "responded"
    /\ UNCHANGED <<proxyReq, proxyUpstream>>
    /\ UNCHANGED <<variant, mounted, now, steps, uiVars, editVars, dialogOpen,
                   netVars, logVars>>

-----------------------------------------------------------------------------
(* Initial state: the useState initialisers *)

\* the last instant of Wednesday 2024-02-28
StartNow == AtEnd(DaysFromCivil(2024, 2, 28))

Init ==
    /\ variant \in {"page", "tmp"}
    /\ mounted = FALSE
    /\ now = StartNow
    /\ steps = 0
    /\ viewMode = "week"
    /\ dateRange = IF variant = "page"
                   THEN [from |-> now, to |-> now]
                   ELSE [from |-> startOfWeek(now), to |-> endOfWeek(now)]
    /\ isLoading = TRUE
    /\ attendanceData = <<>>
    /\ employees = <<>>
    /\ editEmployeeId = nullId
    /\ editDate = nullDate
    /\ editStatus = IF variant = "page" THEN "Present" ELSE "PRESENT"
    /\ editTime = ""
    /\ editComment = ""
    /\ dialogOpen = NoCell
    /\ usersInFlight = 0
    /\ loads = <<>>
    /\ puts = <<>>
    /\ alertOpen = FALSE
    /\ errorCount = 0
    /\ lastError = ""
    /\ ProxyIdle

\* time passes
Tick ==
    /\ now < StartNow + MaxTicks
    /\ now' = now + 1
    /\ UNCHANGED <<proxyVars, variant, mounted, steps, uiVars, editVars, dialogOpen, netVars, logVars>>

\* a user event is possible once the page is mounted
UserEvent ==
    /\ mounted
    /\ steps < MaxSteps
    /\ steps' = steps + 1

-----------------------------------------------------------------------------
(* page.tsx actions *)

\* the useEffect on [dateRange.from, dateRange.to], run for `range`
EffectPage(range) ==
    /\ attendanceData' = fetchAttendanceDataPage(range.from, range.to, now)
    /\ isLoading' = FALSE

MountPage ==
    /\ variant = "page" /\ ~mounted
    /\ mounted' = TRUE
    /\ EffectPage(dateRange)
    /\ UNCHANGED <<proxyVars, variant, now, steps, viewMode, dateRange, employees, editVars,
                   dialogOpen, netVars, logVars>>

\* a view-mode button; the new dateRange holds new Date objects, so the
\* effect runs after the render
handleViewModeChangePage(mode) ==
    /\ variant = "page" /\ UserEvent
    /\ dialogOpen = NoCell
    /\ viewMode' = mode
    /\ dateRange' = RangeOf(mode, now)
    /\ EffectPage(dateRange')
    /\ UNCHANGED <<proxyVars, variant, mounted, now, employees, editVars, dialogOpen, netVars, logVars>>

\* click on the cell of employee e, column i: opens its dialog and calls
\* handleEdit(employee.id, a.date, a.status)
handleEditPage(e, i) ==
    /\ variant = "page" /\ UserEvent
    /\ ~isLoading /\ dialogOpen = NoCell
    /\ LET employee == attendanceData[e]
           a == employee.attendance[i]
       IN /\ a.status # "Not Yet"                \* disabled={a.status === "Not Yet"}
          /\ dialogOpen' = <<employee.id, a.date>>
          /\ IF a.status # "Not Yet"
             THEN /\ editEmployeeId' = employee.id
                  /\ editDate' = <<a.date>>
                  /\ editStatus' = a.status
             ELSE UNCHANGED <<editEmployeeId, editDate, editStatus>>
    /\ UNCHANGED <<proxyVars, variant, mounted, now, uiVars, editTime, editComment, netVars, logVars>>

\* the <select> of the open dialog
setEditStatusPage(v) ==
    /\ variant = "page" /\ UserEvent
    /\ dialogOpen # NoCell
    /\ v # editStatus
    /\ editStatus' = v
    /\ UNCHANGED <<proxyVars, variant, mounted, now, uiVars, editEmployeeId, editDate, editTime,
                   editComment, dialogOpen, netVars, logVars>>

\* the Save Changes button of the open dialog
saveEditPage ==
    /\ variant = "page" /\ UserEvent
    /\ dialogOpen # NoCell
    /\ IF SessionTruthy
       THEN /\ attendanceData' =
                 SaveEditPage(attendanceData, editEmployeeId, editDate[1], editStatus)
            /\ editEmployeeId' = nullId
            /\ editDate' = nullDate
            /\ editStatus' = "Present"
       ELSE UNCHANGED <<attendanceData, editEmployeeId, editDate, editStatus>>
    /\ UNCHANGED <<proxyVars, variant, mounted, now, viewMode, dateRange, isLoading, employees,
                   editTime, editComment, dialogOpen, netVars, logVars>>

\* one of the four leave-day buttons of employee e
handleVacationDayChangePage(e, change) ==
    /\ variant = "page" /\ UserEvent
    /\ ~isLoading /\ dialogOpen = NoCell
    /\ ~ChangeDisabled(attendanceData[e].remainingVacationDays, change)
    /\ attendanceData' = VacationDayChangePage(attendanceData, attendanceData[e].id, change)
    /\ UNCHANGED <<proxyVars, variant, mounted, now, viewMode, dateRange, isLoading, employees,
                   editVars, dialogOpen, netVars, logVars>>

\* the open dialog is dismissed (Escape, the close button, a click outside);
\* no handler of the page runs
dismissDialog ==
    /\ UserEvent /\ ~alertOpen
    /\ dialogOpen # NoCell
    /\ dialogOpen' = NoCell
    /\ UNCHANGED <<proxyVars, variant, mounted, now, uiVars, editVars, netVars, logVars>>

EditCols(n) == 1..(IF n < MaxEditCols THEN n ELSE MaxEditCols)

\* the cells an edit is opened on: <<row, column>>
PageCells ==
    IF variant = "page"
    THEN {c \in (1..Len(attendanceData)) \X (1..MaxEditCols) :
            c[2] \in EditCols(Len(attendanceData[c[1]].attendance))}
    ELSE {}

PageRows == IF variant = "page" THEN 1..Len(attendanceData) ELSE {}

-----------------------------------------------------------------------------
(* tmp.tsx actions *)

\* while an alert box is open the page runs no handler and no continuation
TmpRuns == variant = "tmp" /\ ~alertOpen

\* fetchAttendanceData() called from a render whose employees and dateRange
\* are emps and range.  With no employee Promise.all([]) resolves at once
\* and the call is over before any other event; otherwise the table is
\* replaced by "Loading..." (which unmounts the dialogs) and the requests
\* are in flight.
StartLoad(emps, range, ok) ==
    IF Len(emps) = 0
    THEN /\ attendanceData' = <<>>
         /\ isLoading' = FALSE
         /\ UNCHANGED <<loads, dialogOpen>>
    ELSE /\ isLoading' = TRUE
         /\ loads' = Append(loads, NewLoad(emps, range, ok))
         /\ dialogOpen' = NoCell
         /\ UNCHANGED attendanceData

\* the outcomes the upstream may have in store for a request sent now
Outcomes == IF errorCount < MaxErrors THEN {TRUE, FALSE} ELSE {TRUE}

\* the useEffect on [dateRange, viewMode], run in a render with `range`
EffectTmp(range, ok) ==
    /\ usersInFlight' = usersInFlight + 1          \* fetchEmployees()
    /\ StartLoad(employees, range, ok)             \* fetchAttendanceData()

MountTmp ==
    /\ TmpRuns /\ ~mounted
    /\ mounted' = TRUE
    /\ EffectTmp(dateRange, TRUE)
    /\ UNCHANGED <<proxyVars, variant, now, steps, viewMode, dateRange, employees, editVars,
                   puts, logVars>>

\* GET /users answered
UsersOk ==
    /\ TmpRuns /\ usersInFlight > 0
    /\ usersInFlight' = usersInFlight - 1
    /\ employees' = ServerEmployees
    /\ UNCHANGED <<proxyVars, variant, mounted, now, steps, viewMode, dateRange, isLoading,
                   attendanceData, editVars, dialogOpen, loads, puts, logVars>>

UsersFail ==
    /\ TmpRuns /\ usersInFlight > 0
    /\ errorCount < MaxErrors
    /\ usersInFlight' = usersInFlight - 1
    /\ errorCount' = errorCount + 1
    /\ lastError' = "Error fetching employees:"
    /\ UNCHANGED <<proxyVars, variant, mounted, now, steps, uiVars, editVars, dialogOpen,
                   loads, puts, alertOpen>>

\* mutant: a load started for another range than the current one is dropped
AttendanceOkCurrentOnly(l) ==
    /\ TmpRuns
    /\ loads[l].ok
    /\ attendanceData' =
          IF /\ loads[l].startDate = FormatYMD(dateRange.from)
             /\ loads[l].endDate = FormatYMD(dateRange.to)
          THEN CombinedData(loads[l])
          ELSE attendanceData
    /\ isLoading' = FALSE
    /\ loads' = Remove(loads, l)
    /\ UNCHANGED <<proxyVars, variant, mounted, now, steps, viewMode, dateRange, employees,
                   editVars, dialogOpen, usersInFlight, puts, logVars>>

\* every request of load l answered with records: Promise.all resolves.
\* (The answers of single requests change no state before that.)
AttendanceOk(l) ==
    /\ TmpRuns
    /\ loads[l].ok
    /\ attendanceData' = CombinedData(loads[l])
    /\ isLoading' = FALSE
    /\ loads' = Remove(loads, l)
    /\ UNCHANGED <<proxyVars, variant, mounted, now, steps, viewMode, dateRange, employees,
                   editVars, dialogOpen, usersInFlight, puts, logVars>>

\* mutant: the records of the load's other employees are merged
\* (Promise.allSettled)
AttendanceFailOthersMerged(l, id) ==
    /\ TmpRuns
    /\ ~loads[l].ok
    /\ id \in SeqRange(loads[l].ids)
    /\ errorCount < MaxErrors
    /\ errorCount' = errorCount + 1
    /\ lastError' = "Error fetching attendance data:"
    /\ attendanceData' =
          [other \in SeqRange(loads[l].ids) \ {id} |->
              RecordsFor(other, loads[l].startDate, loads[l].endDate)]
    /\ isLoading' = FALSE
    /\ loads' = Remove(loads, l)
    /\ UNCHANGED <<proxyVars, variant, mounted, now, steps, viewMode, dateRange,
                   employees, editVars, dialogOpen, usersInFlight, puts, alertOpen>>

\* the request of employee id is the first of load l to fail: Promise.all
\* rejects, the answers of the load's other requests are dropped
AttendanceFail(l, id) ==
    /\ TmpRuns
    /\ ~loads[l].ok
    /\ id \in SeqRange(loads[l].ids)
    /\ errorCount < MaxErrors
    /\ errorCount' = errorCount + 1
    /\ lastError' = "Error fetching attendance data:"
    /\ isLoading' = FALSE
    /\ loads' = Remove(loads, l)
    /\ UNCHANGED <<proxyVars, variant, mounted, now, steps, viewMode, dateRange, attendanceData,
                   employees, editVars, dialogOpen, usersInFlight, puts, alertOpen>>

handleViewModeChangeTmp(mode, ok) ==
    /\ TmpRuns /\ UserEvent
    /\ dialogOpen = NoCell
    /\ usersInFlight < MaxInFlight /\ Len(loads) < MaxInFlight
    /\ viewMode' = mode
    /\ dateRange' = RangeOf(mode, now)
    /\ EffectTmp(dateRange', ok)
    /\ UNCHANGED <<proxyVars, variant, mounted, now, employees, editVars, puts, logVars>>

\* click on the cell of employees[e], column i of dateRangeArray
handleEditTmp(e, i) ==
    /\ TmpRuns /\ UserEvent
    /\ ~isLoading /\ dialogOpen = NoCell
    /\ LET employee == employees[e]
           date == dateRangeArray(dateRange)[i]
           record == FindRecord(attendanceData, employee.id, FormatYMD(date))
       IN /\ dialogOpen' = <<employee.id, date>>
          /\ editEmployeeId' = employee.id
          /\ editDate' = FormatYMD(date)
          /\ editStatus' = record.status
          /\ editTime' = OrEmpty(record.time)
          /\ editComment' = OrEmpty(record.comment)
    /\ UNCHANGED <<proxyVars, variant, mounted, now, uiVars, netVars, logVars>>

setEditStatusTmp(v) ==
    /\ TmpRuns /\ UserEvent
    /\ dialogOpen # NoCell
    /\ v # editStatus
    /\ editStatus' = v
    /\ UNCHANGED <<proxyVars, variant, mounted, now, uiVars, editEmployeeId, editDate, editTime,
                   editComment, dialogOpen, netVars, logVars>>

\* the time input, rendered for PRESENT and LATE
setEditTime(v) ==
    /\ TmpRuns /\ UserEvent
    /\ dialogOpen # NoCell
    /\ editStatus \in {"PRESENT", "LATE"}
    /\ v # editTime
    /\ editTime' = v
    /\ UNCHANGED <<proxyVars, variant, mounted, now, uiVars, editEmployeeId, editDate, editStatus,
                   editComment, dialogOpen, netVars, logVars>>

\* the comment input, rendered for OFFICIAL_LEAVE
setEditComment(v) ==
    /\ TmpRuns /\ UserEvent
    /\ dialogOpen # NoCell
    /\ editStatus = "OFFICIAL_LEAVE"
    /\ v # editComment
    /\ editComment' = v
    /\ UNCHANGED <<proxyVars, variant, mounted, now, uiVars, editEmployeeId, editDate, editStatus,
                   editTime, dialogOpen, netVars, logVars>>

\* the Save Changes button: saveEdit up to its await of the PUT.  The
\* continuation runs with the employees and dateRange of this render.
\* ok tells whether the proxy is going to answer 2xx.
saveEditTmp(ok) ==
    /\ TmpRuns /\ UserEvent
    /\ dialogOpen # NoCell
    /\ Len(puts) < MaxInFlight
    /\ IF SessionTruthy
       THEN puts' = Append(puts, [body |-> RequestBody, emps |-> employees,
                                  range |-> dateRange, ok |-> ok])
       ELSE /\ ok
            /\ UNCHANGED puts
    /\ UNCHANGED <<proxyVars, variant, mounted, now, uiVars, editVars, dialogOpen, usersInFlight,
                   loads, logVars>>

\* mutant: the reset of the session is done whatever the answer (as in a
\* finally block)
PutAnsweredResetAlways(p, reloadOk) ==
    /\ TmpRuns
    /\ puts' = Remove(puts, p)
    /\ editEmployeeId' = nullId
    /\ editDate' = nullDate
    /\ editStatus' = "PRESENT"
    /\ editTime' = ""
    /\ editComment' = ""
    /\ IF puts[p].ok
       THEN /\ StartLoad(puts[p].emps, puts[p].range, reloadOk)
            /\ UNCHANGED logVars
       ELSE /\ reloadOk
            /\ errorCount < MaxErrors
            /\ errorCount' = errorCount + 1
            /\ lastError' = "Error updating attendance:"
            /\ alertOpen' = TRUE
            /\ UNCHANGED <<isLoading, attendanceData, loads, dialogOpen>>
    /\ UNCHANGED <<proxyVars, variant, mounted, now, steps, viewMode, dateRange, employees,
                   usersInFlight>>

\* the rest of saveEdit once the PUT of puts[p] is answered: on 2xx the
\* reload and the reset of the session, otherwise the catch block.
\* reloadOk is the outcome in store for the reload's requests.
PutAnswered(p, reloadOk) ==
    /\ TmpRuns
    /\ puts' = Remove(puts, p)
    /\ IF puts[p].ok
       THEN /\ StartLoad(puts[p].emps, puts[p].range, reloadOk)
            /\ editEmployeeId' = nullId
            /\ editDate' = nullDate
            /\ editStatus' = "PRESENT"
            /\ editTime' = ""
            /\ editComment' = ""
            /\ UNCHANGED logVars
       ELSE /\ reloadOk
            /\ errorCount < MaxErrors
            /\ errorCount' = errorCount + 1
            /\ lastError' = "Error updating attendance:"
            /\ alertOpen' = TRUE
            /\ UNCHANGED <<isLoading, attendanceData, loads, editVars, dialogOpen>>
    /\ UNCHANGED <<proxyVars, variant, mounted, now, steps, viewMode, dateRange, employees,
                   usersInFlight>>

\* the user closes the alert box
closeAlert ==
    /\ variant = "tmp" /\ alertOpen
    /\ alertOpen' = FALSE
    /\ UNCHANGED <<proxyVars, variant, mounted, now, steps, uiVars, editVars, dialogOpen,
                   netVars, errorCount, lastError>>

TimeInputs == {"", "09:00"}
CommentInputs == {"", "medical"}

TmpCells ==
    IF variant = "tmp"
    THEN (1..Len(employees)) \X EditCols(Len(dateRangeArray(dateRange)))
    ELSE {}

NextPage ==
    \/ Tick
    \/ dismissDialog
    \/ MountPage
    \/ \E mode \in ViewModes : handleViewModeChangePage(mode)
    \/ \E c \in PageCells : handleEditPage(c[1], c[2])
    \/ \E v \in PageOptions : setEditStatusPage(v)
    \/ saveEditPage
    \/ \E e \in PageRows : \E change \in Changes : handleVacationDayChangePage(e, change)

NextTmp ==
    \/ Tick
    \/ dismissDialog
    \/ MountTmp
    \/ UsersOk
    \/ UsersFail
    \/ \E l \in 1..Len(loads) : AttendanceOk(l)
    \/ \E l \in 1..Len(loads) : \E id \in SeqRange(loads[l].ids) : AttendanceFail(l, id)
    \/ \E mode \in ViewModes : \E ok \in Outcomes : handleViewModeChangeTmp(mode, ok)
    \/ \E c \in TmpCells : handleEditTmp(c[1], c[2])
    \/ \E v \in TmpOptions : setEditStatusTmp(v)
    \/ \E v \in TimeInputs : setEditTime(v)
    \/ \E v \in CommentInputs : setEditComment(v)
    \/ \E ok \in Outcomes : saveEditTmp(ok)
    \/ \E p \in 1..Len(puts) : \E reloadOk \in Outcomes : PutAnswered(p, reloadOk)
    \/ closeAlert

Next == NextPage \/ NextTmp

\* either page
Spec == Init /\ [][Next]_vars

\* each page on its own
InitPage == Init /\ variant = "page"
InitTmp == Init /\ variant = "tmp"
SpecPage == InitPage /\ [][NextPage]_vars
SpecTmp == InitTmp /\ [][NextTmp]_vars

\* the proxy handler on its own: no page is mounted
InitProxy ==
    /\ variant = "proxy"
    /\ mounted = FALSE /\ now = StartNow /\ steps = 0
    /\ viewMode = "week"
    /\ dateRange = [from |-> startOfWeek(now), to |-> endOfWeek(now)]
    /\ isLoading = TRUE
    /\ attendanceData = <<>> /\ employees = <<>>
    /\ editEmployeeId = nullId /\ editDate = nullDate /\ editStatus = "PRESENT"
    /\ editTime = "" /\ editComment = ""
    /\ dialogOpen = NoCell
    /\ usersInFlight = 0 /\ loads = <<>> /\ puts = <<>>
    /\ alertOpen = FALSE /\ errorCount = 0 /\ lastError = ""
    /\ ProxyIdle

NextProxy ==
    \/ \E method \in Methods : \E body \in ProxyBodies : handler(method, body)
    \/ \E o \in UpstreamOutcomes : handlerResumes(o)

SpecProxy == InitProxy /\ [][NextProxy]_vars

\* the dates of the columns the table shows
DisplayedColumns ==
    IF variant = "page" THEN PageColumns(attendanceData) ELSE dateRangeArray(dateRange)

-----------------------------------------------------------------------------
(* Properties *)

\* weekday of a day number, from the anchor Sunday 2024-02-25
IsSunday(day) == (day - DaysFromCivil(2024, 2, 25)) % 7 = 0
IsSaturday(day) == (day - DaysFromCivil(2024, 2, 25)) % 7 = 6
IsWednesday(day) == (day - DaysFromCivil(2024, 2, 25)) % 7 = 3

\* r is the range the Range Selector assigns to mode on the instant today
IsRangeFor(mode, today, r) ==
    LET t == CivilFromDays(DayOf(today))
        f == CivilFromDays(DayOf(r.from))
        l == CivilFromDays(DayOf(r.to))
    IN CASE mode = "day" -> r.from = today /\ r.to = today
         [] mode = "week" ->
              /\ TodOf(r.from) = 0 /\ TodOf(r.to) = TicksPerDay - 1
              /\ IsSunday(DayOf(r.from)) /\ DayOf(r.to) = DayOf(r.from) + 6
              /\ DayOf(r.from) <= DayOf(today) /\ DayOf(today) <= DayOf(r.to)
         [] mode = "month" ->
              /\ TodOf(r.from) = 0 /\ TodOf(r.to) = TicksPerDay - 1
              /\ f = <<t[1], t[2], 1>>
              /\ l[1] = t[1] /\ l[2] = t[2]
              /\ CivilFromDays(DayOf(r.to) + 1)[3] = 1
         [] mode = "all" ->
              /\ r.to = today /\ TodOf(r.from) = TodOf(today)
              /\ f[1] = t[1] - 1 /\ f[2] = t[2]
              /\ \/ f[3] = t[3]
                 \/ f[3] < t[3] /\ CivilFromDays(DayOf(r.from) + 1)[3] = 1

\* a view-mode button of either page is pressed with `mode`
ViewModeSelected(mode) ==
    \/ handleViewModeChangePage(mode)
    \/ \E ok \in BOOLEAN : handleViewModeChangeTmp(mode, ok)

\* C1: in both pages handleViewModeChange(mode) sets viewMode to mode and
\* replaces dateRange by the range of that mode on today: day -> [today,
\* today], week -> the Sunday-to-Saturday week containing today, month ->
\* first to last day of today's month, all -> [today minus 12 months, today].
C1_RangeSelector ==
    [][\A mode \in ViewModes :
         ViewModeSelected(mode) =>
            /\ viewMode' = mode
            /\ IsRangeFor(mode, now, dateRange')]_vars

\* "all" was selected on the leap day 2024-02-29 (tmp.tsx)
C1_Witness ==
    /\ variant = "tmp" /\ viewMode = "all"
    /\ FormatYMD(dateRange.from) = <<2023, 2, 28>>
    /\ FormatYMD(dateRange.to) = <<2024, 2, 29>>

\* C2 as claimed: selecting "week" on a Wednesday gives the range
\* [Monday of that week, Sunday of that week].
C2_MondayToSunday ==
    [][(IsWednesday(DayOf(now)) /\ ViewModeSelected("week")) =>
          /\ DayOf(dateRange'.from) = DayOf(now) - 2
          /\ DayOf(dateRange'.to) = DayOf(now) + 4]_vars

\* C2 amended: selecting "week" on a Wednesday gives the range [Sunday
\* before that Wednesday 00:00, Saturday after it 23:59:59.999].
C2_SundayToSaturday ==
    [][(IsWednesday(DayOf(now)) /\ ViewModeSelected("week")) =>
          /\ dateRange'.from = AtStart(DayOf(now) - 3)
          /\ dateRange'.to = AtEnd(DayOf(now) + 3)]_vars

\* "week" was selected on Wednesday 2024-02-28 (page.tsx starts with the
\* range [now, now], so this range comes from the selection)
C2_Witness ==
    /\ variant = "page" /\ viewMode = "week" /\ IsWednesday(DayOf(now))
    /\ FormatYMD(dateRange.from) = <<2024, 2, 25>>
    /\ FormatYMD(dateRange.to) = <<2024, 3, 2>>

NotYetWhere(P(_)) ==
    variant = "page" =>
        \A e \in 1..Len(attendanceData) :
            \A i \in 1..Len(attendanceData[e].attendance) :
                P(DayOf(attendanceData[e].attendance[i].date)) =>
                    attendanceData[e].attendance[i].status = "Not Yet"

\* C4 as claimed: in the synthetic table every record whose calendar date
\* is today or later has status "Not Yet".
C4_TodayOrLater == NotYetWhere(LAMBDA day : day >= DayOf(now))

\* C4 amended: in the synthetic table every record whose calendar date is
\* later than today has status "Not Yet", for every employee and index.
C4_LaterThanToday == NotYetWhere(LAMBDA day : day > DayOf(now))

\* every employee has a record of a later day in the table
C4_Witness ==
    /\ variant = "page" /\ Len(attendanceData) = Len(PageEmployees)
    /\ \A e \in 1..Len(attendanceData) :
          \E i \in 1..Len(attendanceData[e].attendance) :
             /\ DayOf(attendanceData[e].attendance[i].date) > DayOf(now)
             /\ attendanceData[e].attendance[i].status = "Not Yet"

\* C5: in page.tsx every leave balance stays >= 0 whatever adjustments were
\* made, the -1 button is disabled whenever the balance is below 1 day and
\* the -0.5 button whenever it is below half a day (balances in half days).
C5_LeaveBalance ==
    variant = "page" =>
        \A e \in 1..Len(attendanceData) :
            LET balance == attendanceData[e].remainingVacationDays
            IN /\ balance >= 0
               /\ (balance < 2) => ChangeDisabled(balance, -2)
               /\ (balance < 1) => ChangeDisabled(balance, -1)

\* Bob Johnson's balance was brought from 1 day to 0
C5_Witness ==
    /\ variant = "page" /\ Len(attendanceData) = 3
    /\ attendanceData[3].remainingVacationDays = 0

\* C8: in page.tsx saveEdit with an open session (e, d, s) sets the status
\* of the record of e at d to s, leaves every other field of every record,
\* every employee field and the range alone, and closes the session.
C8_SaveEditFrame ==
    [][(/\ variant = "page"
        /\ editEmployeeId # nullId
        /\ (saveEditPage \/ editEmployeeId' = nullId)) =>
          /\ editEmployeeId' = nullId /\ editDate' = nullDate /\ editStatus' = "Present"
          /\ UNCHANGED <<viewMode, dateRange, isLoading>>
          /\ Len(attendanceData') = Len(attendanceData)
          /\ \A e \in 1..Len(attendanceData) :
                LET old == attendanceData[e]
                    new == attendanceData'[e]
                IN /\ new.id = old.id /\ new.name = old.name
                   /\ new.remainingVacationDays = old.remainingVacationDays
                   /\ new.accumulatedFine = old.accumulatedFine
                   /\ Len(new.attendance) = Len(old.attendance)
                   /\ \A i \in 1..Len(old.attendance) :
                         /\ new.attendance[i].date = old.attendance[i].date
                         /\ new.attendance[i].checkInTime = old.attendance[i].checkInTime
                         /\ new.attendance[i].status =
                               IF old.id = editEmployeeId /\ <<old.attendance[i].date>> = editDate
                               THEN editStatus
                               ELSE old.attendance[i].status]_vars

\* John Doe's first record was saved as "Absent" (his pattern has none) and
\* the session is closed while the dialog is still open
C8_Witness ==
    /\ variant = "page" /\ dialogOpen # NoCell /\ Len(attendanceData) = 3
    /\ editEmployeeId = nullId /\ editDate = nullDate /\ editStatus = "Present"
    /\ Len(attendanceData[1].attendance) > 0
    /\ attendanceData[1].attendance[1].status = "Absent"
    /\ attendanceData[1].attendance[1].checkInTime = undefined

\* C6 as claimed: every attendance-update body in flight carries a
\* non-empty time only when its status is PRESENT or LATE.
C6_TimeOnlyWithPresentOrLate ==
    \A p \in 1..Len(puts) :
        puts[p].body.time # "" => puts[p].body.status \in {"PRESENT", "LATE"}

\* C7 as claimed: the status an edit commits is one of the five editable
\* statuses: no PUT body carries NOT_YET, and the status page.tsx is about
\* to write into a record is never "Not Yet".
C7_NeverNotYet ==
    /\ \A p \in 1..Len(puts) : puts[p].body.status \in TmpOptions
    /\ variant = "page" => editStatus \in PageOptions

\* the PUT of puts[p] is answered in this step
Answered(p) == p \in 1..Len(puts) /\ puts' = Remove(puts, p)

\* the edit session is reset in this step
SessionReset ==
    /\ editEmployeeId' = nullId /\ editDate' = nullDate /\ editStatus' = "PRESENT"
    /\ editTime' = "" /\ editComment' = ""

\* C9 as claimed: in tmp.tsx saveEdit with an open session sends exactly
\* one PUT whose body holds the session's values and changes nothing
\* locally; a reload that no user event started and a reset of the session
\* happen only when a PUT is answered with success, and then the reload
\* asks for the current dateRange.
C9_SaveThenReloadCurrentRange ==
    [][/\ (SessionTruthy /\ \E ok \in BOOLEAN : saveEditTmp(ok)) =>
             /\ Len(puts') = Len(puts) + 1
             /\ puts'[Len(puts')].body =
                   [userId |-> editEmployeeId, attendanceDate |-> editDate,
                    status |-> editStatus, comment |-> editComment, time |-> editTime]
             /\ \A p \in 1..Len(puts) : puts'[p] = puts[p]
             /\ UNCHANGED <<attendanceData, isLoading, loads, editVars>>
       /\ (/\ variant = "tmp"
           /\ \/ steps' = steps /\ Len(loads') > Len(loads)
              \/ editEmployeeId # nullId /\ editEmployeeId' = nullId) =>
             \E p \in 1..Len(puts) : Answered(p) /\ puts[p].ok
       /\ \A p \in 1..Len(puts) :
             (Answered(p) /\ puts[p].ok) =>
                /\ SessionReset
                /\ attendanceData' = attendanceData
                /\ Len(loads') = Len(loads) + 1
                /\ loads'[Len(loads')].startDate = FormatYMD(dateRange.from)
                /\ loads'[Len(loads')].endDate = FormatYMD(dateRange.to)]_vars

\* C10: in tmp.tsx when the PUT of saveEdit fails an alert is raised, no
\* reload starts, attendanceData and employees keep their values and the
\* edit session is not reset.
C10_FailedPutAlertsOnly ==
    [][\A p \in 1..Len(puts) :
          (Answered(p) /\ ~puts[p].ok) =>
             /\ alertOpen'
             /\ errorCount' = errorCount + 1
             /\ UNCHANGED <<loads, isLoading, attendanceData, employees>>
             /\ UNCHANGED <<editEmployeeId, editDate, editStatus, editTime, editComment>>
             /\ UNCHANGED <<dialogOpen, viewMode, dateRange>>]_vars

\* the alert of a failed PUT is open; the session and its dialog are as
\* they were when Save was pressed
C10_Witness ==
    /\ variant = "tmp" /\ alertOpen /\ Len(puts) = 0 /\ Len(loads) = 0
    /\ editEmployeeId # nullId /\ editDate # nullDate
    /\ dialogOpen # NoCell /\ ~isLoading

\* the records the upstream returns for employee id in the current dateRange
CurrentRecords(id) ==
    RecordsFor(id, FormatYMD(dateRange.from), FormatYMD(dateRange.to))

\* C11 as claimed: in tmp.tsx, once the initial load (the requests of the
\* mount effect) has settled with every request succeeding and before any
\* user event, attendanceData has an entry for every employee of employees,
\* holding the records returned for the current dateRange.
C11_InitialLoadCoversEmployees ==
    (/\ variant = "tmp" /\ mounted /\ steps = 0
     /\ usersInFlight = 0 /\ Len(loads) = 0 /\ errorCount = 0) =>
        /\ ~isLoading
        /\ Len(employees) = Len(ServerEmployees)
        /\ \A e \in 1..Len(employees) :
              /\ employees[e].id \in DOMAIN attendanceData
              /\ attendanceData[employees[e].id] = CurrentRecords(employees[e].id)

\* load l leaves flight in this step because the request of one of its
\* employees failed
LoadFailed(l) ==
    /\ l \in 1..Len(loads) /\ ~loads[l].ok
    /\ loads' = Remove(loads, l)
    /\ errorCount' = errorCount + 1
    /\ lastError' = "Error fetching attendance data:"

\* C12 as claimed: when the fetch of one employee fails during a load, an
\* error is logged, no request is issued again, and afterwards
\* attendanceData has no entry for an employee of the load whose fetch
\* failed while it holds the fetched records of the load's other employees.
C12_FailedEmployeeLeftOut ==
    [][\A l \in 1..Len(loads) :
          LoadFailed(l) =>
             /\ usersInFlight' = usersInFlight /\ puts' = puts
             /\ \E id \in SeqRange(loads[l].ids) :
                   /\ id \notin DOMAIN attendanceData'
                   /\ \A other \in SeqRange(loads[l].ids) \ {id} :
                         /\ other \in DOMAIN attendanceData'
                         /\ attendanceData'[other] =
                               RecordsFor(other, loads[l].startDate, loads[l].endDate)]_vars

\* C12 amended: when the fetch of one employee fails during a load, one
\* error is logged, no request is issued again, the loading state ends and
\* attendanceData keeps the value it had before: the records fetched for
\* the load's other employees are dropped with it.
C12_FailedLoadKeepsPriorData ==
    [][\A l \in 1..Len(loads) :
          LoadFailed(l) =>
             /\ usersInFlight' = usersInFlight /\ puts' = puts
             /\ ~isLoading'
             /\ ~alertOpen'
             /\ attendanceData' = attendanceData
             /\ UNCHANGED <<employees, viewMode, dateRange>>]_vars

\* a load failed, nothing is in flight, and the table still holds the
\* records of an earlier load for both employees
C12_Witness ==
    /\ variant = "tmp" /\ errorCount = 1 /\ ~alertOpen
    /\ lastError = "Error fetching attendance data:"
    /\ Len(loads) = 0 /\ Len(puts) = 0 /\ usersInFlight = 0 /\ ~isLoading
    /\ editEmployeeId = nullId
    /\ DOMAIN attendanceData = {1, 2}
    /\ Len(attendanceData[1]) > 0

\* C13 as claimed: in tmp.tsx isLoading is true as long as a load of the
\* attendance data is in flight, also when several loads overlap.
C13_LoadingWhileInFlight ==
    (variant = "tmp" /\ Len(loads) > 0) => isLoading

\* load l leaves flight in this step with every request answered
LoadSucceeded(l) ==
    /\ l \in 1..Len(loads) /\ loads[l].ok
    /\ loads' = Remove(loads, l)
    /\ errorCount' = errorCount

\* C14: in tmp.tsx a press of a view-mode button cancels no load in flight,
\* and a load whose requests are all answered replaces attendanceData by
\* the records of the range it was started for, whatever dateRange is by
\* then; so the table can hold, with nothing in flight, the records of a
\* range other than the current one (the state of C14_Witness).
C14_StaleLoadOverwrites ==
    [][/\ (\E mode \in ViewModes : \E ok \in BOOLEAN : handleViewModeChangeTmp(mode, ok)) =>
             /\ Len(loads') >= Len(loads)
             /\ \A l \in 1..Len(loads) : loads'[l] = loads[l]
       /\ \A l \in 1..Len(loads) :
             LoadSucceeded(l) =>
                /\ DOMAIN attendanceData' = SeqRange(loads[l].ids)
                /\ \A id \in SeqRange(loads[l].ids) :
                      attendanceData'[id] = RecordsFor(id, loads[l].startDate, loads[l].endDate)]_vars

\* Two presses only, "week" or "month" and then "day", no failure: nothing
\* is in flight, dateRange is [today, today] and the table holds the
\* records of 2024-02-26 and 2024-02-27, which the load of the earlier
\* range returned after the load of the day had completed.
C14_Witness ==
    /\ variant = "tmp" /\ steps = 2 /\ errorCount = 0
    /\ usersInFlight = 0 /\ Len(loads) = 0 /\ Len(puts) = 0 /\ ~isLoading
    /\ viewMode = "day" /\ DayOf(dateRange.from) = DayOf(dateRange.to)
    /\ DOMAIN attendanceData = {1, 2}
    /\ CurrentRecords(1) = <<>>
    /\ Len(attendanceData[1]) = 2
    /\ attendanceData[1] # CurrentRecords(1)

\* C15: when handler has responded to a request whose method is not PUT,
\* the response is 405 with Allow: PUT and no upstream request was issued;
\* for PUT exactly one upstream PUT was issued whose body parses to the
\* received body, and the response is 200 with the upstream JSON, or with
\* its text as message, when the upstream answered 2xx with a body that
\* could be read, and otherwise (non-2xx status, rejected fetch, unreadable
\* JSON) the same 500 error response whatever the upstream status was.
C15_ProxyResponse ==
    /\ proxyPhase = "awaiting" =>
          /\ proxyReq.method = "PUT" /\ Len(proxyUpstream) = 1
          /\ proxyRes.status = 0
    /\ proxyPhase = "responded" =>
          IF proxyReq.method # "PUT"
          THEN /\ proxyRes.status = 405
               /\ proxyRes.allow = <<"PUT">>
               /\ proxyUpstream = <<>>
          ELSE /\ Len(proxyUpstream) = 1
               /\ proxyUpstream[1].method = "PUT"
               /\ DOMAIN JSONParse(proxyUpstream[1].body) =
                     {"userId", "attendanceDate", "status", "comment", "time"}
               /\ JSONParse(proxyUpstream[1].body) = proxyReq.body
               /\ LET o == proxyAnswer
                      jsonType == o.contentType \in
                         {"application/json", "application/json; charset=utf-8"}
                      relayed == /\ o.status \in 200..299
                                 /\ jsonType => o.valid
                  IN /\ proxyRes.status \in {200, 500}
                     /\ proxyRes.status = 200 <=> relayed
                     /\ (relayed /\ jsonType) =>
                           proxyRes.data = o.payload /\ proxyRes.message = ""
                     /\ (relayed /\ ~jsonType) =>
                           proxyRes.message = o.payload /\ proxyRes.data = ""
                     /\ ~relayed =>
                           /\ proxyRes.message = "Failed to update attendance"
                           /\ proxyRes.data = "" /\ proxyRes.allow = <<>>

\* a PUT whose upstream answered 400 was responded to with 500
C15_Witness ==
    /\ variant = "proxy" /\ proxyPhase = "responded"
    /\ proxyReq.method = "PUT" /\ proxyReq.body.comment = "medical"
    /\ proxyAnswer.status = 400
    /\ proxyRes.status = 500 /\ Len(proxyUpstream) = 1

\* C16 as claimed: opening an edit replaces every field of the candidate,
\* and no candidate remains (editEmployeeId and editDate are null) after a
\* successful save and after the dialog is dismissed without saving.
C16_CandidateDiscarded ==
    [][/\ (\E c \in PageCells : handleEditPage(c[1], c[2])) =>
             /\ editEmployeeId' = dialogOpen'[1]
             /\ editDate' = <<dialogOpen'[2]>>
       /\ (\E c \in TmpCells : handleEditTmp(c[1], c[2])) =>
             /\ editEmployeeId' = dialogOpen'[1]
             /\ editDate' = FormatYMD(dialogOpen'[2])
       /\ (SessionTruthy /\ saveEditPage) =>
             editEmployeeId' = nullId /\ editDate' = nullDate
       /\ (\E p \in 1..Len(puts) : Answered(p) /\ puts[p].ok) =>
             editEmployeeId' = nullId /\ editDate' = nullDate
       /\ dismissDialog =>
             editEmployeeId' = nullId /\ editDate' = nullDate]_vars

\* some instant up to now, as new Date() returned it
Instants == StartNow..(StartNow + MaxTicks)

\* C17 as claimed: in every state of either page dateRange is the range
\* that handleViewModeChange computes for the selected viewMode (on the
\* instant it was computed).
C17_RangeMatchesViewMode ==
    variant \in {"page", "tmp"} =>
        \E today \in Instants :
            /\ today <= now
            /\ IsRangeFor(viewMode, today, dateRange)

\* C18 as claimed: in page.tsx a press of a view-mode button leaves every
\* employee's remaining leave balance as it was.
C18_ViewModeKeepsBalances ==
    [][(\E mode \in ViewModes : handleViewModeChangePage(mode)) =>
          /\ Len(attendanceData') = Len(attendanceData)
          /\ \A e \in 1..Len(attendanceData) :
                attendanceData'[e].remainingVacationDays =
                   attendanceData[e].remainingVacationDays]_vars

====
